---- MODULE Spec2Model ----
(***************************************************************************)
(* Trust-file handling of fapolicyd (src/library/trust-file.c).            *)
(*                                                                         *)
(* Strings are sequences of one-character strings.  A trust file is a     *)
(* sequence of lines (each without its terminating newline); fgets hands   *)
(* the line plus "\n" to the parser.  The in-memory list (llist.h) is a    *)
(* sequence of [index, data] items.                                        *)
(*                                                                         *)
(* Not modelled: failure of malloc/strdup/asprintf, a NULL hash from       *)
(* get_hash_from_fd, failure of fstat after a successful open, sign        *)
(* characters in front of the size, and lines longer than BUFFER_SIZE - 1  *)
(* (the lines of the model are shorter).  The four header lines are        *)
(* abbreviated; like the real ones each starts with '#'.                   *)
(***************************************************************************)
EXTENDS Integers, Sequences, FiniteSets, TLC

(***************************************************************************)
(* Bounds of the model.                                                    *)
(***************************************************************************)
\* lines of the file in the single-file specification
MaxLines == 3
\* lines summed over the primary and the fragment files (SpecLoadAll)
MaxTotalLines == 3
\* lines summed over the primary and the fragment files (Spec)
MaxStoreLines == 2
\* top-level calls in one behaviour
MaxOps == 2
\* paths in a list handed to trust_file_append
MaxAppList == 2

(***************************************************************************)
(* Program constants.                                                      *)
(***************************************************************************)
PATH_WIDTH == 4096
SHA_WIDTH == 64
BUFFER_SIZE == 4096 + 1 + 1 + 1 + 10 + 1 + 64 + 1
SRC_FILE_DB == 2

TRUST_FILE_PATH == "fapolicyd.trust"
Fragments == {"trust.d/1", "trust.d/2"}
TrustFiles == {TRUST_FILE_PATH} \cup Fragments

HEADER1 == <<"#", " ", "1">>
HEADER2 == <<"#">>
HEADER3 == <<"#", " ", "3">>
HEADER4 == <<"#", " ", "4">>
Header == <<HEADER1, HEADER2, HEADER3, HEADER4>>

(***************************************************************************)
(* Characters and strings.                                                 *)
(***************************************************************************)
NL == "\n"
SP == " "
DigitChars == <<"0", "1", "2", "3", "4", "5", "6", "7", "8", "9">>
\* value reserved for a NULL char pointer
NULL == <<"NULL">>
\* bytes read through an invalid pointer
GARBAGE == <<"?">>

isspace(c) == c \in {" ", "\t", "\n", "\r"}
iscntrl(c) == c \in {"\t", "\n", "\r"}
isdigit(c) == \E i \in 1..10 : DigitChars[i] = c
DigitVal(c) == (CHOOSE i \in 1..10 : DigitChars[i] = c) - 1

Min(a, b) == IF a < b THEN a ELSE b
Drop(s, n) == SubSeq(s, n + 1, Len(s))
Take(s, n) == SubSeq(s, 1, Min(n, Len(s)))

\* strncmp(s, p, strlen(p)) == 0
\* variant: the match ends at a path segment
strncmp0_segment(s, p) ==
  /\ Len(s) >= Len(p) /\ SubSeq(s, 1, Len(p)) = p
  /\ (Len(s) = Len(p) \/ s[Len(p) + 1] = "/")

strncmp0(s, p) == Len(s) >= Len(p) /\ SubSeq(s, 1, Len(p)) = p

\* number of leading characters of s that satisfy / do not satisfy isspace
RECURSIVE WsRun(_)
WsRun(s) == IF s = <<>> \/ ~isspace(s[1]) THEN 0 ELSE 1 + WsRun(Tail(s))
RECURSIVE TokRun(_)
TokRun(s) == IF s = <<>> \/ isspace(s[1]) THEN 0 ELSE 1 + TokRun(Tail(s))
RECURSIVE DigitRun(_)
DigitRun(s) == IF s = <<>> \/ ~isdigit(s[1]) THEN 0 ELSE 1 + DigitRun(Tail(s))

\* printf %lu / %u
RECURSIVE Dec(_)
Dec(n) == IF n < 10 THEN <<DigitChars[n + 1]>>
          ELSE Dec(n \div 10) \o <<DigitChars[(n % 10) + 1]>>

\* value of a string of decimal digits
RECURSIVE DecVal(_)
DecVal(s) == IF s = <<>> THEN 0
             ELSE 10 * DecVal(SubSeq(s, 1, Len(s) - 1)) + DigitVal(s[Len(s)])

(***************************************************************************)
(* FILE_READ_FORMAT "%4096s %lu %64s", directive by directive: the number  *)
(* of converted fields and their values.  %s skips white space and takes   *)
(* at most its width of non-space characters; %lu skips white space and    *)
(* takes a run of digits; a directive that finds nothing to convert ends   *)
(* the scan.                                                               *)
(***************************************************************************)
\* %<width>s on s (white space already skipped): the token and what follows
TokOf(s, width) ==
  [tok |-> Take(s, Min(TokRun(s), width)),
   rest |-> Drop(s, Min(TokRun(s), width))]
ScanTok(s, width) == TokOf(Drop(s, WsRun(s)), width)

\* %lu on s (white space already skipped): digits taken, value, what follows
NumOf(s) ==
  [n |-> DigitRun(s), val |-> DecVal(Take(s, DigitRun(s))),
   rest |-> Drop(s, DigitRun(s))]
ScanNum(s) == NumOf(Drop(s, WsRun(s)))

Scanned(n, name, sz, sha) == [n |-> n, name |-> name, sz |-> sz, sha |-> sha]

sscanf_sha(name, sz, c) ==
  IF c.tok = <<>> THEN Scanned(2, name, sz, <<>>)
  ELSE Scanned(3, name, sz, c.tok)

sscanf_sz(name, b) ==
  IF b.n = 0 THEN Scanned(1, name, 0, <<>>)
  ELSE sscanf_sha(name, b.val, ScanTok(b.rest, SHA_WIDTH))

sscanf_name(a) ==
  IF a.tok = <<>> THEN Scanned(0, <<>>, 0, <<>>)
  ELSE sscanf_sz(a.tok, ScanNum(a.rest))

sscanf(buffer) == sscanf_name(ScanTok(buffer, PATH_WIDTH))

\* DATA_FORMAT (fapolicyd-backend.h): "<tag> <size> <hash>"
DATA_FORMAT(tag, size, hash) ==
  Dec(tag) \o <<SP>> \o Dec(size) \o <<SP>> \o Take(hash, SHA_WIDTH)

\* FILE_WRITE_FORMAT "%s %lu %s\n", as a line (the newline ends the line)
FILE_WRITE_FORMAT(path, size, hash) ==
  path \o <<SP>> \o Dec(size) \o <<SP>> \o hash

(***************************************************************************)
(* The list container of llist.h: an ordered collection of items keyed by  *)
(* index, in insertion order.                                              *)
(***************************************************************************)
Item(index, data) == [index |-> index, data |-> data]

list_contains(list, index) == \E i \in 1..Len(list) : list[i].index = index

list_append(list, index, data) == Append(list, Item(index, data))

\* removes the item stored under index, if there is one
list_remove(list, index) == SelectSeq(list, LAMBDA it : it.index # index)

\* moves the items of src to the end of dest; an item whose index dest
\* already holds is dropped (the existing one is kept); src ends empty
list_merge(dest, src) ==
  dest \o SelectSeq(src, LAMBDA it : ~list_contains(dest, it.index))

list_empty == <<>>

(***************************************************************************)
(* Files.  A trust file is [kind, lines]:                                  *)
(*   "rw"       regular file that can be opened for reading and writing    *)
(*   "ro"       regular file that can be opened for reading only           *)
(*   "none"     cannot be opened                                           *)
(*   "symlink"  directory entry that nftw (FTW_PHYS) reports as FTW_SL     *)
(* The live filesystem maps a path to NoFile or to its [size, hash] (the   *)
(* hash is what get_hash_from_fd returns for the file).                    *)
(***************************************************************************)
NoFile == [size |-> 0, hash |-> <<>>]

fopen_r(file) == file.kind \in {"rw", "ro"}
fopen_w(file) == file.kind = "rw"
typeflag(file) == IF file.kind = "symlink" THEN "FTW_SL" ELSE "FTW_F"

\* fgets(buffer, BUFFER_SIZE, file) on the next line of the file
fgets(line) == Take(line \o <<NL>>, BUFFER_SIZE - 1)

(***************************************************************************)
(* make_path_string: NULL when the path cannot be opened, else the trust   *)
(* file line (count # 0) or the list value with tag 0 (count = 0).         *)
(***************************************************************************)
make_path_string(path, count, lv) ==
  IF path \notin DOMAIN lv \/ lv[path] = NoFile THEN NULL
  ELSE IF count # 0 THEN FILE_WRITE_FORMAT(path, lv[path].size, lv[path].hash)
  ELSE DATA_FORMAT(0, lv[path].size, lv[path].hash)

(***************************************************************************)
(* write_out_list.  ub is the outcome of reading str + 2 when str is NULL  *)
(* (undefined behaviour):                                                  *)
(*   "garbage"   the read yields arbitrary bytes, which are written        *)
(*   "crash"     the process dies in snprintf; nothing of what stdio       *)
(*               buffered has reached the truncated file                   *)
(*   "crash_flushed"  the process dies in snprintf; the lines written      *)
(*               before it have reached the file                           *)
(* Result: the file afterwards, the return code, whether the process died. *)
(***************************************************************************)
OutLine(it) ==
  it.index \o <<SP>> \o (IF it.data = NULL THEN GARBAGE ELSE Drop(it.data, 2))

RECURSIVE FirstNull(_)
FirstNull(list) ==
  IF list = <<>> THEN 1
  ELSE IF Head(list).data = NULL THEN 1 ELSE 1 + FirstNull(Tail(list))

HasNull(list) == \E i \in 1..Len(list) : list[i].data = NULL

\* the lines the loop has written when it gets to the first NULL value
WrittenBefore(list) ==
  Header \o [i \in 1..(FirstNull(list) - 1) |-> OutLine(list[i])]

write_out_list(list, dest, ub) ==
  IF ~fopen_w(dest) THEN [file |-> dest, rc |-> 1, crashed |-> FALSE]
  ELSE IF HasNull(list) /\ ub # "garbage"
  THEN [file |-> [dest EXCEPT !.lines =
                    IF ub = "crash" THEN <<>> ELSE WrittenBefore(list)],
        rc |-> 0, crashed |-> TRUE]
  ELSE [file |-> [dest EXCEPT !.lines =
                    Header \o [i \in 1..Len(list) |-> OutLine(list[i])]],
        rc |-> 0, crashed |-> FALSE]

UB == {"garbage", "crash", "crash_flushed"}

(***************************************************************************)
(* trust_file_append.  wfail is the item at which write() fails (0: no     *)
(* write fails).  Result: the file afterwards and the return code (1       *)
(* cannot open, 2 a write failed, 0 otherwise).  append_loop is the for    *)
(* loop from item i on, append_item its body for the line                  *)
(* make_path_string returned.                                              *)
(***************************************************************************)
Appended(file, rc) == [file |-> file, rc |-> rc]

\* open(fpath, O_CREAT | O_WRONLY | O_APPEND, 0600)
open_append(file) == file.kind = "rw"

RECURSIVE append_loop(_, _, _, _, _)

\* variant: the loop ends at the first path that cannot be opened
append_item_stop(file, list, i, lv, wfail, line) ==
  IF line = NULL THEN Appended(file, 0)
  ELSE IF wfail = i THEN Appended(file, 2)
  ELSE append_loop([file EXCEPT !.lines = Append(@, line)], list, i + 1,
                   lv, wfail)

append_item(file, list, i, lv, wfail, line) ==
  IF line = NULL THEN append_loop(file, list, i + 1, lv, wfail)
  ELSE IF wfail = i THEN Appended(file, 2)
  ELSE append_loop([file EXCEPT !.lines = Append(@, line)], list, i + 1,
                   lv, wfail)

append_loop(file, list, i, lv, wfail) ==
  IF i > Len(list) THEN Appended(file, 0)
  ELSE append_item(file, list, i, lv, wfail,
                   make_path_string(list[i].index, 1, lv))

trust_file_append(file, list, lv, wfail) ==
  IF ~open_append(file) THEN Appended(file, 1)
  ELSE append_loop(file, list, 1, lv, wfail)

(***************************************************************************)
(* trust_file_load: rc 1 cannot open, 2 malformed line, 0 otherwise;       *)
(* nread is the number of lines fgets returned, dups the number of         *)
(* duplicate warnings.  load_loop is the while loop from line i on,        *)
(* load_line its body for the buffer fgets filled, load_record the body    *)
(* from the sscanf on.                                                     *)
(***************************************************************************)
Loaded(rc, list, nread, dups) ==
  [rc |-> rc, list |-> list, nread |-> nread, dups |-> dups]

RECURSIVE load_loop(_, _, _, _)

\* variant: a malformed line is skipped and the read goes on
load_record_skip(lines, i, list, dups, r) ==
  IF r.n # 3 THEN load_loop(lines, i + 1, list, dups)
  ELSE IF list_contains(list, r.name)
  THEN load_loop(lines, i + 1, list, dups + 1)
  ELSE load_loop(lines, i + 1,
                 list_append(list, r.name,
                             DATA_FORMAT(SRC_FILE_DB, r.sz, r.sha)),
                 dups)

load_record(lines, i, list, dups, r) ==
  IF r.n # 3 THEN Loaded(2, list, i, dups)
  ELSE IF list_contains(list, r.name)
  THEN load_loop(lines, i + 1, list, dups + 1)
  ELSE load_loop(lines, i + 1,
                 list_append(list, r.name,
                             DATA_FORMAT(SRC_FILE_DB, r.sz, r.sha)),
                 dups)

load_line(lines, i, list, dups, buffer) ==
  IF iscntrl(buffer[1]) \/ buffer[1] = "#"
  THEN load_loop(lines, i + 1, list, dups)
  ELSE load_record(lines, i, list, dups, sscanf(buffer))

load_loop(lines, i, list, dups) ==
  IF i > Len(lines) THEN Loaded(0, list, Len(lines), dups)
  ELSE load_line(lines, i, list, dups, fgets(lines[i]))

trust_file_load(file, list) ==
  IF ~fopen_r(file) THEN Loaded(1, list, 0, 0)
  ELSE load_loop(file.lines, 1, list, 0)

(***************************************************************************)
(* trust_file_delete_path and trust_file_update_path on one file.          *)
(* Result: the file afterwards, the returned count, whether the process    *)
(* died in write_out_list.                                                 *)
(***************************************************************************)
Mutated(file, count, crashed_) ==
  [file |-> file, count |-> count, crashed |-> crashed_]

\* variant: the loop counts the matching items and unlinks none
Unlinked_none(list, path) == list

\* the items the unlink loop leaves in the list
Unlinked(list, path) == SelectSeq(list, LAMBDA it : ~strncmp0(it.index, path))

\* lines 255-259, for the count and the list the loop left
delete_finish(file, count, kept) ==
  IF count # 0
  THEN Mutated(write_out_list(kept, file, "garbage").file, count, FALSE)
  ELSE Mutated(file, 0, FALSE)

\* lines 230-259, for the loaded list
delete_loaded(file, path, list) ==
  delete_finish(file, Len(list) - Len(Unlinked(list, path)),
                Unlinked(list, path))

trust_file_delete_path(file, path) ==
  delete_loaded(file, path, trust_file_load(file, list_empty).list)

\* the list after the loop of lines 271-278
Rehashed(list, path, lv) ==
  [i \in 1..Len(list) |->
     IF strncmp0(list[i].index, path)
     THEN Item(list[i].index, make_path_string(list[i].index, 0, lv))
     ELSE list[i]]

UpdatedList(file, path, lv) ==
  Rehashed(trust_file_load(file, list_empty).list, path, lv)

MatchingItems(list, path) ==
  Cardinality({i \in 1..Len(list) : strncmp0(list[i].index, path)})

\* lines 280-284, for the count and what write_out_list did
update_written(count, w) == Mutated(w.file, count, w.crashed)

update_finish(file, count, upd, ub) ==
  IF count # 0 THEN update_written(count, write_out_list(upd, file, ub))
  ELSE Mutated(file, 0, FALSE)

\* lines 268-284, for the loaded list
update_loaded(file, path, lv, ub, list) ==
  update_finish(file, MatchingItems(list, path), Rehashed(list, path, lv), ub)

trust_file_update_path(file, path, lv, ub) ==
  update_loaded(file, path, lv, ub, trust_file_load(file, list_empty).list)

(***************************************************************************)
(* trust_file_rm_duplicates: rc as for trust_file_load; list is the        *)
(* candidate list afterwards, nrec the number of record lines whose path   *)
(* went to list_remove.  rm_loop is the while loop from line i on, rm_line *)
(* its body for the buffer fgets filled, rm_record the body from the       *)
(* sscanf on, rm_removed the test that follows list_remove.                *)
(***************************************************************************)
Deduped(rc, list, nrec) == [rc |-> rc, list |-> list, nrec |-> nrec]

RECURSIVE rm_loop(_, _, _, _)

\* variant: the loop goes on when the list has become empty
rm_removed_no_break(lines, i, list, nrec) == rm_loop(lines, i + 1, list, nrec)

rm_removed(lines, i, list, nrec) ==
  IF Len(list) = 0 THEN Deduped(0, list, nrec)
  ELSE rm_loop(lines, i + 1, list, nrec)

\* variant: the path of the line is left in the list
rm_record_keep(lines, i, list, nrec, r) ==
  IF r.n # 3 THEN Deduped(2, list, nrec)
  ELSE rm_removed(lines, i, list, nrec + 1)

rm_record(lines, i, list, nrec, r) ==
  IF r.n # 3 THEN Deduped(2, list, nrec)
  ELSE rm_removed(lines, i, list_remove(list, r.name), nrec + 1)

rm_line(lines, i, list, nrec, buffer) ==
  IF iscntrl(buffer[1]) \/ buffer[1] = "#"
  THEN rm_loop(lines, i + 1, list, nrec)
  ELSE rm_record(lines, i, list, nrec, sscanf(buffer))

rm_loop(lines, i, list, nrec) ==
  IF i > Len(lines) THEN Deduped(0, list, nrec)
  ELSE rm_line(lines, i, list, nrec, fgets(lines[i]))

trust_file_rm_duplicates(file, list) ==
  IF ~fopen_r(file) THEN Deduped(1, list, 0)
  ELSE rm_loop(file.lines, 1, list, 0)

(***************************************************************************)
(* nftw over the fragment directory: the callback runs on every entry, in  *)
(* directory order (order), and acts on those nftw reports as FTW_F.       *)
(***************************************************************************)
Orders ==
  {o \in [1..Cardinality(Fragments) -> Fragments] :
     \A i, j \in DOMAIN o : o[i] = o[j] => i = j}

Walked(list, dups) == [list |-> list, dups |-> dups]

\* ftw_load on entries i.. of order: the list and the warnings so far
RECURSIVE ftw_load(_, _, _, _, _)

\* variant: the walk stops at the first file whose load reports an error
ftw_load_next_stop(files, order, i, dups, r) ==
  IF r.rc # 0 THEN Walked(r.list, dups + r.dups)
  ELSE ftw_load(files, order, i + 1, r.list, dups + r.dups)

\* the walk after the load of entry i
ftw_load_next(files, order, i, dups, r) ==
  ftw_load(files, order, i + 1, r.list, dups + r.dups)

ftw_load(files, order, i, list, dups) ==
  IF i > Len(order) THEN Walked(list, dups)
  ELSE IF typeflag(files[order[i]]) = "FTW_F"
  THEN ftw_load_next(files, order, i, dups,
                     trust_file_load(files[order[i]], list))
  ELSE ftw_load(files, order, i + 1, list, dups)

\* ftw_delete_path on entries i.. of order
RECURSIVE ftw_delete_path(_, _, _, _, _)

ftw_delete_path_next(files, order, i, count, path, r) ==
  ftw_delete_path([files EXCEPT ![order[i]] = r.file], order, i + 1,
                  count + r.count, path)

ftw_delete_path(files, order, i, count, path) ==
  IF i > Len(order) THEN [files |-> files, count |-> count]
  ELSE IF typeflag(files[order[i]]) = "FTW_F"
  THEN ftw_delete_path_next(files, order, i, count, path,
                            trust_file_delete_path(files[order[i]], path))
  ELSE ftw_delete_path(files, order, i + 1, count, path)

\* ftw_update_path on entries i.. of order; the walk ends if the process dies
RECURSIVE ftw_update_path(_, _, _, _, _, _, _)

ftw_update_path_next(files, order, i, count, path, lv, ub, r) ==
  IF r.crashed
  THEN [files |-> [files EXCEPT ![order[i]] = r.file],
        count |-> count + r.count, crashed |-> TRUE]
  ELSE ftw_update_path([files EXCEPT ![order[i]] = r.file], order, i + 1,
                       count + r.count, path, lv, ub)

ftw_update_path(files, order, i, count, path, lv, ub) ==
  IF i > Len(order)
  THEN [files |-> files, count |-> count, crashed |-> FALSE]
  ELSE IF typeflag(files[order[i]]) = "FTW_F"
  THEN ftw_update_path_next(files, order, i, count, path, lv, ub,
         trust_file_update_path(files[order[i]], path, lv, ub))
  ELSE ftw_update_path(files, order, i + 1, count, path, lv, ub)

\* ftw_rm_duplicates on entries i.. of order: the list, the record lines
\* scanned and the files handed to trust_file_rm_duplicates so far; the
\* walk ends at FTW_STOP
RECURSIVE ftw_rm_duplicates(_, _, _, _, _, _)

ftw_rm_duplicates_next(files, order, i, nrec, nfiles, r) ==
  ftw_rm_duplicates(files, order, i + 1, r.list, nrec + r.nrec, nfiles + 1)

ftw_rm_duplicates(files, order, i, list, nrec, nfiles) ==
  IF i > Len(order) \/ Len(list) = 0
  THEN [list |-> list, nrec |-> nrec, nfiles |-> nfiles]
  ELSE IF typeflag(files[order[i]]) = "FTW_F"
  THEN ftw_rm_duplicates_next(files, order, i, nrec, nfiles,
         trust_file_rm_duplicates(files[order[i]], list))
  ELSE ftw_rm_duplicates(files, order, i + 1, list, nrec, nfiles)

\* the outcomes write_out_list can have for the updated list of one file
UBOutcomes(file, path, lv) ==
  IF HasNull(UpdatedList(file, path, lv)) THEN UB ELSE {"garbage"}

(***************************************************************************)
(* State.                                                                  *)
(***************************************************************************)
VARIABLES
  fs,       \* the trust files: TrustFiles -> [kind, lines]
  live,     \* the live filesystem: path -> NoFile or [size, hash]
  _list,    \* global scratch list
  _count,   \* global count
  _path,    \* global path
  dirorder, \* the order in which nftw reports the fragment directory
  out,      \* the caller's list after the last call
  call,     \* the last top-level call: operation, arguments, results
  prev,     \* the call before the last one
  pre,      \* the trust files when the last call began
  crashed,  \* the process died
  nops,     \* number of calls made
  proc      \* two calls in flight at once: the position and locals of each

vars ==
  <<fs, live, dirorder, _list, _count, _path, out, call, prev, pre, crashed,
    nops, proc>>

\* the strings of the model
P_ab == <<"/", "a", "b">>
P_c == <<"/", "c">>
H_h == <<"h">>
H_k == <<"k">>
RecPaths == {P_ab, P_c}
Queries == {<<"/", "a">>, P_c, <<"/">>}
LineSet ==
  {FILE_WRITE_FORMAT(P_ab, 7, H_h), FILE_WRITE_FORMAT(P_ab, 12, H_k),
   FILE_WRITE_FORMAT(P_c, 7, H_h), <<"g", "a", "r", "b", "a", "g", "e">>}
LiveStats == {NoFile, [size |-> 12, hash |-> H_k]}
\* lists a caller passes in
InLists == {list_empty, <<Item(P_ab, DATA_FORMAT(1, 3, H_k))>>}

SeqsUpTo(S, n) == UNION {[1..k -> S] : k \in 0..n}

NoCall ==
  [op |-> "none", file |-> "", path |-> <<>>, rc |-> 0, count0 |-> 0,
   arg |-> <<>>, nread |-> 0, dups |-> 0, nfiles |-> 0]

\* a call in flight: where it is, its path argument, its list and its count
Idle == [pc |-> "idle", path |-> <<>>, list |-> <<>>, count |-> 0]
NoProcs == [delete |-> Idle, update |-> Idle, overlap |-> FALSE]

InitCommon ==
  /\ _list = list_empty
  /\ _count = 0
  /\ _path = <<>>
  /\ out = list_empty
  /\ call = NoCall
  /\ prev = NoCall
  /\ pre = fs
  /\ crashed = FALSE
  /\ nops = 0
  /\ proc = NoProcs

\* a file that cannot be opened shows no content
FileOK(file) == file.kind = "none" => file.lines = <<>>

\* one trust file; the fragment directory is empty
InitFile ==
  /\ \E kind \in {"rw", "ro", "none"}, lines \in SeqsUpTo(LineSet, MaxLines) :
       /\ FileOK([kind |-> kind, lines |-> lines])
       /\ fs = [f \in TrustFiles |->
                  IF f = TRUST_FILE_PATH THEN [kind |-> kind, lines |-> lines]
                  ELSE [kind |-> "none", lines |-> <<>>]]
  /\ live \in [RecPaths -> LiveStats]
  /\ dirorder = <<>>
  /\ InitCommon

\* the primary file and the fragment files, holding at most n lines drawn
\* from lineset between them; at most one of the files is not an ordinary
\* readable and writable file
InitStore(lineset, n, kinds) ==
  /\ \E odd \in TrustFiles, kind \in kinds, all \in SeqsUpTo(lineset, n) :
       \E i \in 0..Len(all) : \E j \in i..Len(all) :
         /\ odd = TRUST_FILE_PATH => kind # "symlink"
         /\ fs = [f \in TrustFiles |->
                    [kind |-> IF f = odd THEN kind ELSE "rw",
                     lines |-> IF f = TRUST_FILE_PATH THEN SubSeq(all, 1, i)
                               ELSE IF f = "trust.d/1"
                               THEN SubSeq(all, i + 1, j)
                               ELSE SubSeq(all, j + 1, Len(all))]]
         /\ \A f \in TrustFiles : FileOK(fs[f])
  /\ dirorder \in Orders
  /\ InitCommon

(***************************************************************************)
(* The calls.  Each action is one whole call of a public function.         *)
(***************************************************************************)
CanCall == ~crashed /\ nops < MaxOps

Called(c) ==
  /\ call' = c
  /\ prev' = call
  /\ pre' = fs
  /\ nops' = nops + 1
  /\ UNCHANGED proc

\* trust_file_load(fpath, list)
Load(f, list) ==
  LET r == trust_file_load(fs[f], list)
  IN  /\ CanCall
      /\ out' = r.list
      /\ Called([NoCall EXCEPT !.op = "load", !.file = f, !.arg = list,
                               !.rc = r.rc, !.nread = r.nread,
                               !.dups = r.dups, !.count0 = _count])
      /\ UNCHANGED <<fs, live, dirorder, _list, _count, _path, crashed>>

\* trust_file_delete_path(fpath, path)
DeletePath(f, path) ==
  LET r == trust_file_delete_path(fs[f], path)
  IN  /\ CanCall
      /\ fs' = [fs EXCEPT ![f] = r.file]
      /\ Called([NoCall EXCEPT !.op = "delete", !.file = f, !.path = path,
                               !.rc = r.count, !.count0 = _count])
      /\ UNCHANGED <<live, dirorder, _list, _count, _path, out, crashed>>

\* trust_file_update_path(fpath, path)
UpdatePath(f, path) ==
  \E ub \in UBOutcomes(fs[f], path, live) :
    LET r == trust_file_update_path(fs[f], path, live, ub)
    IN  /\ CanCall
        /\ fs' = [fs EXCEPT ![f] = r.file]
        /\ crashed' = r.crashed
        /\ Called([NoCall EXCEPT !.op = "update", !.file = f, !.path = path,
                                 !.rc = r.count, !.count0 = _count])
        /\ UNCHANGED <<live, dirorder, _list, _count, _path, out>>

\* variant: the fragment directory is walked before the primary file is read
LoadAll_fragments_first(list) ==
  LET r1 == ftw_load(fs, dirorder, 1, list_empty, 0)
      r2 == trust_file_load(fs[TRUST_FILE_PATH], r1.list)
  IN  /\ CanCall
      /\ out' = list_merge(list, r2.list)
      /\ _list' = list_empty
      /\ Called([NoCall EXCEPT !.op = "load_all", !.arg = list,
                               !.dups = r1.dups + r2.dups,
                               !.count0 = _count])
      /\ UNCHANGED <<fs, live, dirorder, _count, _path, crashed>>

\* variant: the loaded records are appended to the caller's list as they are
LoadAll_append(list) ==
  LET r1 == trust_file_load(fs[TRUST_FILE_PATH], list_empty)
      r2 == ftw_load(fs, dirorder, 1, r1.list, r1.dups)
  IN  /\ CanCall
      /\ out' = list \o r2.list
      /\ _list' = list_empty
      /\ Called([NoCall EXCEPT !.op = "load_all", !.arg = list,
                               !.dups = r2.dups, !.count0 = _count])
      /\ UNCHANGED <<fs, live, dirorder, _count, _path, crashed>>

\* variant: the merge copies the records and leaves them in the scratch list
LoadAll_keep(list) ==
  LET l0 == list_empty
      r1 == trust_file_load(fs[TRUST_FILE_PATH], l0)
      r2 == ftw_load(fs, dirorder, 1, r1.list, r1.dups)
  IN  /\ CanCall
      /\ out' = list_merge(list, r2.list)
      /\ _list' = r2.list
      /\ Called([NoCall EXCEPT !.op = "load_all", !.arg = list,
                               !.dups = r2.dups, !.count0 = _count])
      /\ UNCHANGED <<fs, live, dirorder, _count, _path, crashed>>

\* trust_file_load_all(list)
LoadAll(list) ==
  LET l0 == list_empty
      r1 == trust_file_load(fs[TRUST_FILE_PATH], l0)
      r2 == ftw_load(fs, dirorder, 1, r1.list, r1.dups)
  IN  /\ CanCall
      /\ out' = list_merge(list, r2.list)
      /\ _list' = list_empty
      /\ Called([NoCall EXCEPT !.op = "load_all", !.arg = list,
                               !.dups = r2.dups, !.count0 = _count])
      /\ UNCHANGED <<fs, live, dirorder, _count, _path, crashed>>

\* variant: the count of the primary file is added to the count left in _count
DeletePathAll_accumulate(path) ==
  LET r1 == trust_file_delete_path(fs[TRUST_FILE_PATH], path)
      r2 == ftw_delete_path([fs EXCEPT ![TRUST_FILE_PATH] = r1.file],
                            dirorder, 1, _count + r1.count, path)
  IN  /\ CanCall
      /\ _path' = path
      /\ _count' = r2.count
      /\ fs' = r2.files
      /\ Called([NoCall EXCEPT !.op = "delete_all", !.path = path,
                               !.rc = r2.count, !.count0 = _count])
      /\ UNCHANGED <<live, dirorder, _list, out, crashed>>

\* trust_file_delete_path_all(path)
DeletePathAll(path) ==
  LET r1 == trust_file_delete_path(fs[TRUST_FILE_PATH], path)
      r2 == ftw_delete_path([fs EXCEPT ![TRUST_FILE_PATH] = r1.file],
                            dirorder, 1, r1.count, path)
  IN  /\ CanCall
      /\ _path' = path
      /\ _count' = r2.count
      /\ fs' = r2.files
      /\ Called([NoCall EXCEPT !.op = "delete_all", !.path = path,
                               !.rc = r2.count, !.count0 = _count])
      /\ UNCHANGED <<live, dirorder, _list, out, crashed>>

\* trust_file_update_path_all(path)
UpdatePathAll(path) ==
  \E ub \in UNION {UBOutcomes(fs[f], path, live) : f \in TrustFiles} :
    LET r1 == trust_file_update_path(fs[TRUST_FILE_PATH], path, live, ub)
        r2 == IF r1.crashed
              THEN [files |-> [fs EXCEPT ![TRUST_FILE_PATH] = r1.file],
                    count |-> r1.count, crashed |-> TRUE]
              ELSE ftw_update_path([fs EXCEPT ![TRUST_FILE_PATH] = r1.file],
                                   dirorder, 1, r1.count, path, live, ub)
    IN  /\ CanCall
        /\ _path' = path
        /\ _count' = r2.count
        /\ fs' = r2.files
        /\ crashed' = r2.crashed
        /\ Called([NoCall EXCEPT !.op = "update_all", !.path = path,
                                 !.rc = r2.count, !.count0 = _count])
        /\ UNCHANGED <<live, dirorder, _list, out>>

\* trust_file_rm_duplicates_all(list)
RmDuplicatesAll(list) ==
  LET l0 == list_merge(list_empty, list)
      r1 == trust_file_rm_duplicates(fs[TRUST_FILE_PATH], l0)
      r2 == ftw_rm_duplicates(fs, dirorder, 1, r1.list, r1.nrec, 0)
  IN  /\ CanCall
      /\ out' = list_merge(list_empty, r2.list)
      /\ _list' = list_empty
      /\ Called([NoCall EXCEPT !.op = "rm_duplicates_all", !.arg = list,
                               !.nread = r2.nrec, !.nfiles = r2.nfiles,
                               !.count0 = _count])
      /\ UNCHANGED <<fs, live, dirorder, _count, _path, crashed>>

\* trust_file_append(fpath, list)
AppendRecords(f, list) ==
  \E wfail \in 0..Len(list) :
    LET r == trust_file_append(fs[f], list, live, wfail)
    IN  /\ CanCall
        /\ fs' = [fs EXCEPT ![f] = r.file]
        /\ Called([NoCall EXCEPT !.op = "append", !.file = f, !.arg = list,
                                 !.rc = r.rc, !.nread = wfail,
                                 !.count0 = _count])
        /\ UNCHANGED <<live, dirorder, _list, _count, _path, out, crashed>>

(***************************************************************************)
(* trust_file_delete_path and trust_file_update_path in steps, for two     *)
(* calls on the same file at once (p is "delete" or "update"): the load    *)
(* and the loop over the list, the fopen(dest, "w") of write_out_list,     *)
(* which truncates the file, and the writes up to fclose.                  *)
(***************************************************************************)
Other(p) == IF p = "delete" THEN "update" ELSE "delete"
InFlight(p) == proc[p].pc \in {"loaded", "opened"}

\* the list the call holds when its loop is over
LoopedList(p, list, path) ==
  IF p = "delete" THEN Unlinked(list, path) ELSE Rehashed(list, path, live)

\* lines 227-253 / 265-278
StepLoad(p, f, path) ==
  LET list == trust_file_load(fs[f], list_empty).list
      count == MatchingItems(list, path)
  IN  /\ ~crashed
      /\ proc[p].pc = "idle"
      /\ proc' = [proc EXCEPT
                    ![p] = [pc |-> IF count # 0 THEN "loaded" ELSE "done",
                            path |-> path,
                            list |-> LoopedList(p, list, path),
                            count |-> count],
                    !.overlap = @ \/ InFlight(Other(p))]
      /\ UNCHANGED <<fs, live, dirorder, _list, _count, _path, out, call,
                     prev, pre, crashed, nops>>

\* lines 118-123
StepOpen(p, f) ==
  /\ ~crashed
  /\ proc[p].pc = "loaded"
  /\ IF fopen_w(fs[f])
     THEN /\ fs' = [fs EXCEPT ![f].lines = <<>>]
          /\ proc' = [proc EXCEPT ![p].pc = "opened"]
     ELSE /\ fs' = fs
          /\ proc' = [proc EXCEPT ![p].pc = "done"]
  /\ UNCHANGED <<live, dirorder, _list, _count, _path, out, call, prev, pre,
                 crashed, nops>>

\* lines 125-142
StepWrite(p, f) ==
  \E ub \in (IF HasNull(proc[p].list) THEN UB ELSE {"garbage"}) :
    LET w == write_out_list(proc[p].list, fs[f], ub)
    IN  /\ ~crashed
        /\ proc[p].pc = "opened"
        /\ fs' = [fs EXCEPT ![f] = w.file]
        /\ crashed' = w.crashed
        /\ proc' = [proc EXCEPT ![p].pc = "done"]
        /\ UNCHANGED <<live, dirorder, _list, _count, _path, out, call, prev,
                       pre, nops>>

(***************************************************************************)
(* Specifications.                                                         *)
(*   Spec         the trust store under the whole-store mutators           *)
(*   SpecLoadAll  the trust store under trust_file_load_all                *)
(*   SpecFile     one trust file under the single-file calls               *)
(*   SpecDedup    the trust store under trust_file_rm_duplicates_all       *)
(*   SpecAppend   one trust file under trust_file_append, load and delete  *)
(*   SpecRace     one trust file under a delete and an update at once      *)
(*   SpecPrefix   one trust file under delete and update, any query length *)
(*   SpecAll      the trust store under all four whole-store calls         *)
(***************************************************************************)
StoreLineSet ==
  {FILE_WRITE_FORMAT(P_ab, 7, H_h), FILE_WRITE_FORMAT(P_c, 7, H_h),
   <<"g", "a", "r", "b", "a", "g", "e">>}
StoreQueries == {<<"/", "a">>, <<"/">>}

\* the live files are all there or all gone
Init ==
  /\ InitStore(StoreLineSet, MaxStoreLines, {"rw", "none", "symlink"})
  /\ \E st \in LiveStats : live = [p \in RecPaths |-> st]

Next ==
  \/ \E path \in StoreQueries : DeletePathAll(path)
  \/ \E path \in StoreQueries : UpdatePathAll(path)

Spec == Init /\ [][Next]_vars

InitLoadAll ==
  /\ InitStore(LineSet, MaxTotalLines, {"rw", "none", "symlink"})
  /\ live = [p \in RecPaths |-> NoFile]

NextLoadAll == \E list \in InLists : LoadAll(list)

SpecLoadAll == InitLoadAll /\ [][NextLoadAll]_vars

NextFile ==
  \/ \E list \in InLists : Load(TRUST_FILE_PATH, list)
  \/ \E path \in Queries : DeletePath(TRUST_FILE_PATH, path)
  \/ \E path \in Queries : UpdatePath(TRUST_FILE_PATH, path)

SpecFile == InitFile /\ [][NextFile]_vars

\* candidate lists a caller hands to trust_file_rm_duplicates_all
P_d == <<"/", "d">>
CandLists ==
  {list_empty,
   <<Item(P_ab, DATA_FORMAT(1, 3, H_k))>>,
   <<Item(P_d, DATA_FORMAT(1, 3, H_k))>>,
   <<Item(P_ab, DATA_FORMAT(1, 3, H_k)), Item(P_c, DATA_FORMAT(1, 7, H_h))>>,
   <<Item(P_c, DATA_FORMAT(1, 7, H_h)), Item(P_d, DATA_FORMAT(1, 3, H_k))>>}

NextDedup == \E list \in CandLists : RmDuplicatesAll(list)

InitDedup ==
  /\ InitStore(LineSet, MaxStoreLines, {"rw", "none", "symlink"})
  /\ live = [p \in RecPaths |-> NoFile]

SpecDedup == InitDedup /\ [][NextDedup]_vars

\* paths of live files handed to trust_file_append, one with a blank in it
P_a_b == <<"/", "a", " ", "b">>
AppPaths == {P_ab, P_a_b, P_c}
AppLists ==
  {[i \in 1..Len(ps) |-> Item(ps[i], <<>>)] : ps \in SeqsUpTo(AppPaths, MaxAppList)}

\* one trust file and the live files, no fragment files
InitAppend ==
  /\ \E kind \in {"rw", "ro", "none"}, lines \in SeqsUpTo(StoreLineSet, 1) :
       /\ FileOK([kind |-> kind, lines |-> lines])
       /\ fs = [f \in TrustFiles |->
                  IF f = TRUST_FILE_PATH THEN [kind |-> kind, lines |-> lines]
                  ELSE [kind |-> "none", lines |-> <<>>]]
  /\ live \in [AppPaths -> LiveStats]
  /\ dirorder = <<>>
  /\ InitCommon

NextAppend ==
  \/ \E list \in AppLists : AppendRecords(TRUST_FILE_PATH, list)
  \/ Load(TRUST_FILE_PATH, list_empty)
  \/ \E path \in StoreQueries : DeletePath(TRUST_FILE_PATH, path)

SpecAppend == InitAppend /\ [][NextAppend]_vars

\* one trust file, a delete and an update on it at once
NextRace ==
  \E p \in {"delete", "update"} :
    \/ \E path \in Queries : StepLoad(p, TRUST_FILE_PATH, path)
    \/ StepOpen(p, TRUST_FILE_PATH)
    \/ StepWrite(p, TRUST_FILE_PATH)

InitRace ==
  /\ \E kind \in {"rw", "ro"}, lines \in SeqsUpTo(LineSet, MaxStoreLines) :
       fs = [f \in TrustFiles |->
               IF f = TRUST_FILE_PATH THEN [kind |-> kind, lines |-> lines]
               ELSE [kind |-> "none", lines |-> <<>>]]
  /\ live \in [RecPaths -> LiveStats]
  /\ dirorder = <<>>
  /\ InitCommon

SpecRace == InitRace /\ [][NextRace]_vars

\* one trust file under delete and update with queries of every length
PrefixQueries ==
  {<<>>, <<"/", "a">>, P_ab, <<"/", "a", "b", "c">>, <<"/", "c", "/">>}

NextPrefix ==
  \/ \E path \in PrefixQueries : DeletePath(TRUST_FILE_PATH, path)
  \/ \E path \in PrefixQueries : UpdatePath(TRUST_FILE_PATH, path)

InitPrefix ==
  /\ \E kind \in {"rw", "ro", "none"},
        lines \in SeqsUpTo(LineSet, MaxStoreLines) :
       /\ FileOK([kind |-> kind, lines |-> lines])
       /\ fs = [f \in TrustFiles |->
                  IF f = TRUST_FILE_PATH THEN [kind |-> kind, lines |-> lines]
                  ELSE [kind |-> "none", lines |-> <<>>]]
  /\ live \in [RecPaths -> LiveStats]
  /\ dirorder = <<>>
  /\ InitCommon

SpecPrefix == InitPrefix /\ [][NextPrefix]_vars

\* the trust store under all four whole-store calls
StoreCands ==
  {<<Item(P_ab, DATA_FORMAT(1, 3, H_k))>>,
   <<Item(P_c, DATA_FORMAT(1, 7, H_h)), Item(P_d, DATA_FORMAT(1, 3, H_k))>>}

InitAll ==
  /\ InitStore(StoreLineSet, MaxStoreLines, {"rw", "none", "symlink"})
  /\ live = [p \in RecPaths |-> [size |-> 12, hash |-> H_k]]

NextAll ==
  \/ \E list \in InLists : LoadAll(list)
  \/ \E list \in StoreCands : RmDuplicatesAll(list)
  \/ \E path \in StoreQueries : DeletePathAll(path)
  \/ \E path \in StoreQueries : UpdatePathAll(path)

SpecAll == InitAll /\ [][NextAll]_vars

(***************************************************************************)
(* Vocabulary of the properties: what a trust file holds, read line by     *)
(* line.                                                                   *)
(***************************************************************************)
IsComment(line) == iscntrl(fgets(line)[1]) \/ fgets(line)[1] = "#"
IsRecord(line) == ~IsComment(line) /\ sscanf(fgets(line)).n = 3
IsMalformed(line) == ~IsComment(line) /\ sscanf(fgets(line)).n # 3
RecOf(line) ==
  LET r == sscanf(fgets(line))
  IN  [path |-> r.name, size |-> r.sz, hash |-> r.sha]

\* the records of the record lines, in file order
Records(lines) ==
  LET recs == SelectSeq(lines, IsRecord)
  IN  [i \in 1..Len(recs) |-> RecOf(recs[i])]

HasMalformed(lines) == \E i \in 1..Len(lines) : IsMalformed(lines[i])

\* index of the first malformed line, Len + 1 if there is none
FirstBad(lines) ==
  IF HasMalformed(lines)
  THEN CHOOSE i \in 1..Len(lines) :
         /\ IsMalformed(lines[i])
         /\ \A j \in 1..(i - 1) : ~IsMalformed(lines[j])
  ELSE Len(lines) + 1

\* the lines in front of the first malformed line
GoodPart(lines) == Take(lines, FirstBad(lines) - 1)

PathsOf(recs) == {recs[i].path : i \in 1..Len(recs)}
IndexesOf(list) == {list[i].index : i \in 1..Len(list)}
NoDuplicateIndex(list) ==
  \A i, j \in 1..Len(list) : list[i].index = list[j].index => i = j

\* the first record of recs with the path
FirstWith(recs, path) ==
  recs[CHOOSE i \in 1..Len(recs) :
         /\ recs[i].path = path
         /\ \A j \in 1..(i - 1) : recs[j].path # path]

\* the list value of a record loaded from a trust file
LoadedValue(rec) == DATA_FORMAT(SRC_FILE_DB, rec.size, rec.hash)

\* the files load_all visits, in order: the primary file, then the regular
\* fragment files in directory order
Visited(files) ==
  <<TRUST_FILE_PATH>> \o
    SelectSeq(dirorder, LAMBDA f : files[f].kind # "symlink")

RECURSIVE Flatten(_)
Flatten(ss) == IF ss = <<>> THEN <<>> ELSE Head(ss) \o Flatten(Tail(ss))

\* all lines of the visited files / the lines a load gets to see
AllLines(files) ==
  Flatten([i \in 1..Len(Visited(files)) |-> files[Visited(files)[i]].lines])
SeenLines(files) ==
  Flatten([i \in 1..Len(Visited(files)) |->
             IF fopen_r(files[Visited(files)[i]])
             THEN GoodPart(files[Visited(files)[i]].lines) ELSE <<>>])

IsBadFile(file) ==
  file.kind # "symlink" /\ (~fopen_r(file) \/ HasMalformed(file.lines))
AllFilesGood(files) == \A f \in TrustFiles : ~IsBadFile(files[f])

(***************************************************************************)
(* C1: after load_all into an empty output store, over well-formed primary *)
(* and fragment files, the output store holds exactly one record per       *)
(* distinct path on disk, with the size and hash of the file visited       *)
(* first (primary, then fragments in traversal order).                     *)
(***************************************************************************)
Theorem_C1 ==
  (call.op = "load_all" /\ call.arg = list_empty /\ AllFilesGood(pre)) =>
     LET recs == Records(AllLines(pre))
     IN  /\ NoDuplicateIndex(out)
         /\ IndexesOf(out) = PathsOf(recs)
         /\ \A i \in 1..Len(out) :
              out[i].data = LoadedValue(FirstWith(recs, out[i].index))

\* a path with different sizes in two files was loaded once
Witness_C1 ==
  /\ call.op = "load_all" /\ call.arg = list_empty /\ AllFilesGood(pre)
  /\ call.dups >= 1
  /\ \E f \in Fragments :
       \E i \in 1..Len(pre[f].lines), j \in 1..Len(pre[TRUST_FILE_PATH].lines) :
         /\ pre[f].kind = "rw"
         /\ RecOf(pre[f].lines[i]).path =
              RecOf(pre[TRUST_FILE_PATH].lines[j]).path
         /\ RecOf(pre[f].lines[i]).size #
              RecOf(pre[TRUST_FILE_PATH].lines[j]).size

(***************************************************************************)
(* C2: load_all into an output store that already holds records leaves no  *)
(* two records with the same path in it; for a path both in the store and  *)
(* on disk the record of the store is kept.                                *)
(***************************************************************************)
Theorem_C2 ==
  (call.op = "load_all" /\ call.arg # list_empty) =>
     /\ NoDuplicateIndex(out)
     /\ \A i \in 1..Len(call.arg) : out[i] = call.arg[i]

\* the store held a path that a trust file holds too
Witness_C2 ==
  /\ call.op = "load_all" /\ call.arg # list_empty
  /\ \E i \in 1..Len(call.arg) :
       call.arg[i].index \in PathsOf(Records(SeenLines(pre)))
  /\ Len(out) > Len(call.arg)

(***************************************************************************)
(* C3: loading one file whose well-formed lines are followed by a          *)
(* malformed line returns the parse error, reads no line after the         *)
(* malformed one, and leaves in the list what it held before plus the      *)
(* records of the lines in front of the malformed line.                    *)
(***************************************************************************)
Theorem_C3 ==
  (call.op = "load" /\ fopen_r(pre[call.file])
     /\ HasMalformed(pre[call.file].lines)) =>
     LET lines == pre[call.file].lines
         recs == Records(GoodPart(lines))
     IN  /\ call.rc = 2
         /\ call.nread = FirstBad(lines)
         /\ NoDuplicateIndex(out)
         /\ Take(out, Len(call.arg)) = call.arg
         /\ IndexesOf(out) = IndexesOf(call.arg) \cup PathsOf(recs)
         /\ \A i \in (Len(call.arg) + 1)..Len(out) :
              out[i].data = LoadedValue(FirstWith(recs, out[i].index))

\* a record line, then a malformed line, then another record line
Witness_C3 ==
  /\ call.op = "load" /\ call.rc = 2
  /\ Len(out) > Len(call.arg)
  /\ \E i \in 1..Len(pre[call.file].lines) :
       i > call.nread /\ IsRecord(pre[call.file].lines[i])

(***************************************************************************)
(* C4: in load_all a file that cannot be opened or that holds a malformed  *)
(* line does not stop the operation: the result holds the records of       *)
(* every other file (first seen wins) and the records in front of the      *)
(* malformed line of the bad file.                                         *)
(***************************************************************************)
Theorem_C4 ==
  (call.op = "load_all" /\ ~AllFilesGood(pre)) =>
     LET recs == Records(SeenLines(pre))
     IN  /\ IndexesOf(out) = IndexesOf(call.arg) \cup PathsOf(recs)
         /\ \A i \in (Len(call.arg) + 1)..Len(out) :
              out[i].data = LoadedValue(FirstWith(recs, out[i].index))

\* the bad file is visited before a file that contributes a record
Witness_C4 ==
  /\ call.op = "load_all" /\ call.arg = list_empty
  /\ \E i, j \in 1..Len(Visited(pre)) :
       /\ i < j
       /\ IsBadFile(pre[Visited(pre)[i]])
       /\ Records(GoodPart(pre[Visited(pre)[i]].lines)) # <<>>
       /\ \E k \in 1..Len(out) :
            /\ out[k].index \in PathsOf(Records(pre[Visited(pre)[j]].lines))
            /\ out[k].index
                 \notin PathsOf(Records(pre[Visited(pre)[i]].lines))

\* the file holds a record line whose path starts with p
HoldsPrefix(lines, p) ==
  \E i \in 1..Len(lines) :
    IsRecord(lines[i]) /\ strncmp0(RecOf(lines[i]).path, p)

\* the record lines of the file have pairwise distinct paths
DistinctPaths(lines) ==
  \A i, j \in 1..Len(lines) :
    (IsRecord(lines[i]) /\ IsRecord(lines[j])
       /\ RecOf(lines[i]).path = RecOf(lines[j]).path) => i = j

RecordSet(lines) == {Records(lines)[i] : i \in 1..Len(Records(lines))}

\* the file starts with the four header lines
LooksRewritten(lines) ==
  Len(lines) >= Len(Header) /\ Take(lines, Len(Header)) = Header

(***************************************************************************)
(* C5: on a trust file that holds a record whose path starts with p,       *)
(* delete-by-prefix(p) returns a non-zero count and leaves no record whose *)
(* path starts with p; called again at once it returns zero.  Stated for   *)
(* a file that can be opened for reading and writing.                      *)
(***************************************************************************)
Claim_C5 ==
  /\ (call.op = "delete" /\ pre[call.file].kind = "rw"
        /\ HoldsPrefix(pre[call.file].lines, call.path)) =>
       /\ call.rc # 0
       /\ ~HoldsPrefix(fs[call.file].lines, call.path)
  /\ (call.op = "delete" /\ pre[call.file].kind = "rw"
        /\ prev.op = "delete" /\ prev.file = call.file
        /\ prev.path = call.path /\ prev.rc # 0) =>
       call.rc = 0

(***************************************************************************)
(* C6: after delete-by-prefix(p) every record that was in the file and     *)
(* whose path does not start with p is still in the file with the same     *)
(* path, size and hash, whatever the file holds (a malformed line          *)
(* included).  Stated for files whose record lines have pairwise distinct  *)
(* paths.                                                                  *)
(***************************************************************************)
Claim_C6 ==
  (call.op = "delete" /\ DistinctPaths(pre[call.file].lines)) =>
     \A rec \in RecordSet(pre[call.file].lines) :
       ~strncmp0(rec.path, call.path) => rec \in RecordSet(fs[call.file].lines)

(***************************************************************************)
(* C7: delete-by-prefix and update-by-prefix on one file rewrite the file  *)
(* if and only if the returned count is at least one; with a count of 0    *)
(* the file is left as it was.                                             *)
(***************************************************************************)
Claim_C7 ==
  (call.op \in {"delete", "update"} /\ ~crashed) =>
     /\ call.rc >= 1 => LooksRewritten(fs[call.file].lines)
     /\ call.rc = 0 => fs[call.file] = pre[call.file]

(***************************************************************************)
(* C8: the count a whole-store delete or update returns is the sum, over   *)
(* the primary file and the regular fragment files, of the records of the  *)
(* file the prefix selects; nothing of the count an earlier call left is   *)
(* in it.                                                                  *)
(***************************************************************************)
MatchCount(file, p) ==
  IF fopen_r(file)
  THEN Cardinality({path \in PathsOf(Records(GoodPart(file.lines))) :
                      strncmp0(path, p)})
  ELSE 0

RECURSIVE SumCounts(_, _, _)
SumCounts(files, names, p) ==
  IF names = <<>> THEN 0
  ELSE MatchCount(files[Head(names)], p) + SumCounts(files, Tail(names), p)

Theorem_C8 ==
  (call.op \in {"delete_all", "update_all"} /\ ~crashed) =>
     call.rc = SumCounts(pre, Visited(pre), call.path)

\* an earlier call left a count, and two files add to the count of this one
Witness_C8 ==
  /\ call.op \in {"delete_all", "update_all"} /\ ~crashed
  /\ call.count0 > 0
  /\ call.rc >= 2
  /\ \E f \in Fragments :
       /\ MatchCount(pre[f], call.path) > 0
       /\ MatchCount(pre[TRUST_FILE_PATH], call.path) > 0

(***************************************************************************)
(* C9: in update-by-prefix(p) a matching record whose path can no longer   *)
(* be opened is skipped: the operation is not aborted, the rewritten file  *)
(* holds the skipped record with its old size and hash, and the other      *)
(* matching records are updated.  Stated for a writable file without       *)
(* malformed lines whose record lines have pairwise distinct paths.        *)
(***************************************************************************)
LiveRec(path) == [path |-> path, size |-> live[path].size, hash |-> live[path].hash]

Claim_C9 ==
  (call.op = "update" /\ pre[call.file].kind = "rw"
     /\ ~HasMalformed(pre[call.file].lines)
     /\ DistinctPaths(pre[call.file].lines)) =>
     \A rec \in RecordSet(pre[call.file].lines) :
       (strncmp0(rec.path, call.path) /\ live[rec.path] = NoFile) =>
          /\ ~crashed
          /\ rec \in RecordSet(fs[call.file].lines)
          /\ \A other \in RecordSet(pre[call.file].lines) :
               (strncmp0(other.path, call.path) /\ live[other.path] # NoFile)
                  => LiveRec(other.path) \in RecordSet(fs[call.file].lines)

(***************************************************************************)
(* C10: after update-by-prefix(p) every record whose path starts with p    *)
(* carries the size and hash of the live file at that path, and every      *)
(* record whose path does not start with p is still in the file with its   *)
(* size and hash.  Stated for a writable file whose record lines have      *)
(* pairwise distinct paths, all of them paths of live files, and for a     *)
(* call that updated at least one record.                                  *)
(***************************************************************************)
Claim_C10 ==
  (call.op = "update" /\ pre[call.file].kind = "rw"
     /\ DistinctPaths(pre[call.file].lines)
     /\ \A rec \in RecordSet(pre[call.file].lines) : live[rec.path] # NoFile
     /\ call.rc >= 1) =>
     /\ \A rec \in RecordSet(fs[call.file].lines) :
          strncmp0(rec.path, call.path) => rec = LiveRec(rec.path)
     /\ \A rec \in RecordSet(pre[call.file].lines) :
          ~strncmp0(rec.path, call.path)
             => rec \in RecordSet(fs[call.file].lines)

\* the candidates whose path is the path of none of the records
Left(cand, recs) == SelectSeq(cand, LAMBDA it : it.index \notin PathsOf(recs))

(***************************************************************************)
(* C11: after remove_existing the candidate store holds exactly those of   *)
(* its original records whose path is the path of no record of the primary *)
(* file or of a fragment file, each with its original value and in the     *)
(* original order (so: empty if the trust store holds every candidate      *)
(* path, unchanged if it holds none).  With a file that cannot be opened   *)
(* or that holds a malformed line, the records that count are those a load *)
(* would see.                                                              *)
(***************************************************************************)
Theorem_C11 ==
  (call.op = "rm_duplicates_all") =>
     /\ out = Left(call.arg, Records(SeenLines(pre)))
     /\ AllFilesGood(pre) => (out = Left(call.arg, Records(AllLines(pre))))

\* a fragment file removed one candidate, another candidate stayed
Witness_C11 ==
  /\ call.op = "rm_duplicates_all" /\ AllFilesGood(pre)
  /\ Len(out) = 1 /\ Len(call.arg) = 2
  /\ \E i \in 1..2 :
       /\ call.arg[i].index \notin IndexesOf(out)
       /\ call.arg[i].index
            \notin PathsOf(Records(pre[TRUST_FILE_PATH].lines))

\* the lines of a file a scan gets to see
SeenOf(file) == IF fopen_r(file) THEN GoodPart(file.lines) ELSE <<>>

\* the records a scan of every file to its end goes through, in order
ScanRecs(files) == Records(SeenLines(files))

\* how many of recs are gone through until the candidates are all removed
EmptiedAt(cand, recs) ==
  IF \E k \in 0..Len(recs) : Left(cand, Take(recs, k)) = <<>>
  THEN CHOOSE k \in 0..Len(recs) :
         /\ Left(cand, Take(recs, k)) = <<>>
         /\ \A j \in 0..(k - 1) : Left(cand, Take(recs, j)) # <<>>
  ELSE Len(recs)

\* the lines seen in the first j visited files
SeenBefore(files, j) ==
  Flatten([i \in 1..j |-> SeenOf(files[Visited(files)[i]])])

\* the fragment files in front of which some candidate is still there
FilesScanned(cand, files) ==
  Cardinality({j \in 2..Len(Visited(files)) :
                 Left(cand, Records(SeenBefore(files, j - 1))) # <<>>})

(***************************************************************************)
(* C12 as stated: during remove_existing, once the candidate store is      *)
(* empty no further record line and no further fragment file is scanned,   *)
(* and the final candidate store is that of a scan of every file to its    *)
(* end.                                                                    *)
(***************************************************************************)
Claim_C12 ==
  (call.op = "rm_duplicates_all") =>
     /\ call.nread = EmptiedAt(call.arg, ScanRecs(pre))
     /\ call.nfiles = FilesScanned(call.arg, pre)
     /\ out = Left(call.arg, ScanRecs(pre))

(***************************************************************************)
(* C12 amended: as above when the call starts with candidates; a call      *)
(* that starts with an empty candidate store still scans the first record  *)
(* line of the primary file (the emptiness test follows the removal), and  *)
(* no fragment file.                                                       *)
(***************************************************************************)
Theorem_C12 ==
  (call.op = "rm_duplicates_all") =>
     /\ call.arg # <<>> => call.nread = EmptiedAt(call.arg, ScanRecs(pre))
     /\ call.arg = <<>> =>
          call.nread =
            (IF Records(SeenOf(pre[TRUST_FILE_PATH])) # <<>> THEN 1 ELSE 0)
     /\ call.nfiles = FilesScanned(call.arg, pre)
     /\ out = Left(call.arg, ScanRecs(pre))

\* the candidates were all removed before the last record and the last file
Witness_C12 ==
  /\ call.op = "rm_duplicates_all" /\ call.arg # <<>> /\ out = <<>>
  /\ call.nread < Len(ScanRecs(pre))
  /\ call.nfiles < Len(Visited(pre)) - 1

\* a record as the data model has it: a path that is not empty and does not
\* begin with a control character or '#', an unsigned size, a hash token
WellFormed(rec) ==
  /\ rec.path # <<>> /\ ~iscntrl(rec.path[1]) /\ rec.path[1] # "#"
  /\ rec.size \in Nat
  /\ rec.hash # <<>> /\ Len(rec.hash) <= SHA_WIDTH
  /\ \A i \in 1..Len(rec.hash) : ~isspace(rec.hash[i])

\* the well-formed records the live files of the model give
LiveRecs ==
  {rec \in {[path |-> p, size |-> st.size, hash |-> st.hash] :
              p \in AppPaths, st \in LiveStats} : WellFormed(rec)}

\* the well-formed records the line is the on-disk form of
RenderedFrom(line) ==
  {rec \in LiveRecs : FILE_WRITE_FORMAT(rec.path, rec.size, rec.hash) = line}

(***************************************************************************)
(* C13: a line that is the on-disk form "<path> <size> <hash>" of a        *)
(* well-formed record is parsed by the load as a record with the same      *)
(* path, size and hash.                                                    *)
(***************************************************************************)
Claim_C13 ==
  (call.op = "load" /\ fopen_r(pre[call.file])) =>
     \A i \in 1..Len(pre[call.file].lines) :
       \A rec \in RenderedFrom(pre[call.file].lines[i]) :
         /\ IsRecord(pre[call.file].lines[i])
         /\ RecOf(pre[call.file].lines[i]) = rec

\* the write to the file that fails in the call, if one does
WriteFails(c) ==
  c.nread >= 1 /\ live[c.arg[c.nread].index] # NoFile

\* the lines trust_file_append writes for the paths that can be opened
LinesFor(list) ==
  LET ok == SelectSeq(list, LAMBDA it : live[it.index] # NoFile)
  IN  [i \in 1..Len(ok) |->
         FILE_WRITE_FORMAT(ok[i].index, live[ok[i].index].size,
                           live[ok[i].index].hash)]

(***************************************************************************)
(* C17: append-records leaves every line already in the file as it is and  *)
(* adds, in list order, one record line for each path of the list that can *)
(* be opened; a path that cannot be opened is skipped, the others are      *)
(* still appended and the call returns success.  Stated for a file that    *)
(* can be opened for appending and a call in which no write fails.         *)
(***************************************************************************)
Theorem_C17 ==
  (call.op = "append" /\ open_append(pre[call.file]) /\ ~WriteFails(call)) =>
     /\ call.rc = 0
     /\ fs[call.file].lines = pre[call.file].lines \o LinesFor(call.arg)

\* the first path of the list cannot be opened, the second one is appended
Witness_C17 ==
  /\ call.op = "append" /\ call.rc = 0
  /\ Len(call.arg) = 2
  /\ live[call.arg[1].index] = NoFile
  /\ live[call.arg[2].index] # NoFile
  /\ Len(pre[call.file].lines) = 1
  /\ Len(fs[call.file].lines) = 2

BothDone == proc.delete.pc = "done" /\ proc.update.pc = "done"

\* the file and the live files are such that each call alone does its work
SoundFile(file) ==
  /\ file.kind = "rw"
  /\ ~HasMalformed(file.lines)
  /\ DistinctPaths(file.lines)
  /\ \A rec \in RecordSet(file.lines) : live[rec.path] # NoFile

\* the change of the delete / of the update is in the file
DeleteHolds(lines) == ~HoldsPrefix(lines, proc.delete.path)
UpdateHolds(lines) ==
  \A rec \in RecordSet(lines) :
    strncmp0(rec.path, proc.update.path) => rec = LiveRec(rec.path)

(***************************************************************************)
(* C14: when a delete-by-prefix and an update-by-prefix on the same file   *)
(* run one after the other, both changes are in the final file: no record  *)
(* starts with the deleted prefix, and every record that starts with the   *)
(* updated prefix carries the size and hash of its live file.  (That an    *)
(* interleaving of the two loses a change is the witness.)  Stated for a   *)
(* writable file without malformed lines and with pairwise distinct paths, *)
(* all of them paths of live files.                                        *)
(***************************************************************************)
Theorem_C14 ==
  (BothDone /\ ~proc.overlap /\ SoundFile(pre[TRUST_FILE_PATH])) =>
     /\ ~crashed
     /\ DeleteHolds(fs[TRUST_FILE_PATH].lines)
     /\ UpdateHolds(fs[TRUST_FILE_PATH].lines)

\* the two calls overlapped, and the record the delete removed is back
Witness_C14 ==
  /\ BothDone /\ proc.overlap /\ SoundFile(pre[TRUST_FILE_PATH])
  /\ proc.delete.count > 0 /\ proc.update.count > 0
  /\ ~DeleteHolds(fs[TRUST_FILE_PATH].lines)

\* q is a character prefix of s
IsPrefix(q, s) == Len(q) <= Len(s) /\ \A i \in 1..Len(q) : s[i] = q[i]

\* the records a load of the file gives: of each path the first one
LoadedRecs(file) ==
  {FirstWith(Records(SeenOf(file)), path) :
     path \in PathsOf(Records(SeenOf(file)))}

Affected(file, q) == {rec \in LoadedRecs(file) : IsPrefix(q, rec.path)}

(***************************************************************************)
(* C15: delete-by-prefix and update-by-prefix select by literal string     *)
(* prefix: the affected records are exactly the loaded records whose path  *)
(* has the query as a character prefix (so /ab is affected by /a, a path   *)
(* shorter than the query never is, and the empty query affects every      *)
(* record).  The count is their number; a delete that rewrites the file    *)
(* leaves exactly the other loaded records, an update that rewrites it     *)
(* leaves the others as they were and gives the affected ones that have a  *)
(* live file its size and hash.                                            *)
(***************************************************************************)
Theorem_C15 ==
  (call.op \in {"delete", "update"}) =>
     LET file == pre[call.file]
         hit == Affected(file, call.path)
         rewritten == file.kind = "rw" /\ call.rc > 0 /\ ~crashed
     IN  /\ call.rc = Cardinality(hit)
         /\ call.path = <<>> => call.rc = Cardinality(LoadedRecs(file))
         /\ \A rec \in LoadedRecs(file) :
              Len(rec.path) < Len(call.path) => rec \notin hit
         /\ (call.op = "delete" /\ rewritten) =>
              RecordSet(fs[call.file].lines) = LoadedRecs(file) \ hit
         /\ (call.op = "update" /\ rewritten) =>
              /\ \A rec \in LoadedRecs(file) \ hit :
                   rec \in RecordSet(fs[call.file].lines)
              /\ \A rec \in hit :
                   live[rec.path] # NoFile =>
                     LiveRec(rec.path) \in RecordSet(fs[call.file].lines)

\* the query /a removed /ab and left /c; it is no path segment of /ab
Witness_C15 ==
  /\ call.op = "delete" /\ call.path = <<"/", "a">> /\ call.rc = 1
  /\ pre[call.file].kind = "rw"
  /\ P_ab \in PathsOf(Records(pre[call.file].lines))
  /\ PathsOf(Records(fs[call.file].lines)) = {P_c}

\* the list the call of c handed to write_out_list
WrittenList(c) ==
  IF c.op = "delete"
  THEN Unlinked(trust_file_load(pre[c.file], list_empty).list, c.path)
  ELSE UpdatedList(pre[c.file], c.path, live)

\* the value is a tag digit and one separator, then "<size> <hash>"
TagPrefixed(data) ==
  /\ data # NULL
  /\ Len(data) > 2 /\ isdigit(data[1]) /\ data[2] = SP
  /\ NumOf(Drop(data, 2)).n > 0
  /\ Len(NumOf(Drop(data, 2)).rest) > 1
  /\ NumOf(Drop(data, 2)).rest[1] = SP
  /\ TokRun(Tail(NumOf(Drop(data, 2)).rest))
       = Len(Tail(NumOf(Drop(data, 2)).rest))

\* the line "<path> <size> <hash>" of an item with such a value
LineOf(it) ==
  FILE_WRITE_FORMAT(it.index, NumOf(Drop(it.data, 2)).val,
                    Tail(NumOf(Drop(it.data, 2)).rest))

(***************************************************************************)
(* C16: every value of the list a rewrite writes out, loaded with the      *)
(* file-source tag or rebuilt by update-by-prefix, is a two-character      *)
(* prefix followed by "<size> <hash>", and every record line the rewrite   *)
(* emits is exactly "<path> <size> <hash>".                                *)
(***************************************************************************)
Claim_C16 ==
  (call.op \in {"delete", "update"} /\ call.rc >= 1
     /\ pre[call.file].kind = "rw") =>
     /\ \A i \in 1..Len(WrittenList(call)) :
          TagPrefixed(WrittenList(call)[i].data)
     /\ fs[call.file].lines =
          Header \o [i \in 1..Len(WrittenList(call)) |->
                       LineOf(WrittenList(call)[i])]

\* the lines of the file behind the four header lines
Body(lines) == Drop(lines, Len(Header))

(***************************************************************************)
(* C19: whenever delete-by-prefix or update-by-prefix rewrites a trust     *)
(* file, the file then holds the four header lines followed by record      *)
(* lines with pairwise distinct paths, also when it held several lines     *)
(* with one path before; of those the first is the one kept (a record the  *)
(* update does not touch keeps the size and hash of the first line).       *)
(***************************************************************************)
Claim_C19 ==
  (call.op \in {"delete", "update"} /\ call.rc >= 1
     /\ pre[call.file].kind = "rw") =>
     /\ LooksRewritten(fs[call.file].lines)
     /\ \A i \in 1..Len(Body(fs[call.file].lines)) :
          IsRecord(Body(fs[call.file].lines)[i])
     /\ DistinctPaths(fs[call.file].lines)
     /\ \A rec \in RecordSet(fs[call.file].lines) :
          (call.op = "delete" \/ ~strncmp0(rec.path, call.path)) =>
             rec = FirstWith(Records(SeenOf(pre[call.file])), rec.path)

(***************************************************************************)
(* C18: the scratch list is empty when load_all and remove_existing        *)
(* return, and in any sequence of load_all, remove_existing,               *)
(* delete-path-all and update-path-all calls the result of a call is the   *)
(* one its arguments and the files on disk give: the caller's records and  *)
(* the first-seen records of the files for load_all, the candidates whose  *)
(* path no scanned record has for remove_existing, the sum of the counts   *)
(* of the files for the other two.                                         *)
(***************************************************************************)
Theorem_C18 ==
  /\ (call.op \in {"load_all", "rm_duplicates_all"}) => _list = list_empty
  /\ (call.op = "load_all") =>
       /\ Take(out, Len(call.arg)) = call.arg
       /\ IndexesOf(out) =
            IndexesOf(call.arg) \cup PathsOf(Records(SeenLines(pre)))
       /\ \A i \in (Len(call.arg) + 1)..Len(out) :
            out[i].data =
              LoadedValue(FirstWith(Records(SeenLines(pre)), out[i].index))
  /\ (call.op = "rm_duplicates_all") => out = Left(call.arg, ScanRecs(pre))
  /\ (call.op \in {"delete_all", "update_all"} /\ ~crashed) =>
       call.rc = SumCounts(pre, Visited(pre), call.path)

\* a load_all that found records, then a remove_existing that kept a candidate
Witness_C18 ==
  /\ prev.op = "load_all" /\ call.op = "rm_duplicates_all"
  /\ ScanRecs(pre) # <<>>
  /\ out # <<>> /\ Len(out) < Len(call.arg)

====
